---- MODULE Spec2Model ----
(***************************************************************************)
(* gesedels: a namespaced key-value store over bbolt.                      *)
(* Model of the string sanitisation functions, the database handling      *)
(* functions and the http response functions of gesedels.go.              *)
(* Strings are sequences of one-character strings.                        *)
(***************************************************************************)
EXTENDS Naturals, Sequences, FiniteSets, TLC

VARIABLES
    db,         \* the bbolt database: whether bucket "main" exists, and its pairs
    last,       \* the last database call: its arguments, what it returned, what it found
    history,    \* per key, the most recent SetPair or DeletePair call on it, if it returned nil
    pc,         \* concurrent SetPair calls: where each caller is in db.Update
    args,       \* concurrent SetPair calls: each caller's user, name and pval
    txs,        \* concurrent SetPair calls: each caller's read-write transaction
    writer,     \* bbolt's writer lock: the caller holding it, or 0
    rets,       \* concurrent SetPair calls: what each call returned
    keyIn,      \* PairKey: two (user, name) identities
    keyOut,     \* PairKey: the keys derived from them
    w,          \* the http.ResponseWriter: its header and the calls made on it
    req         \* the response function called on w and its arguments

storeVars == <<db, last, history>>
concVars == <<pc, args, txs, writer, rets>>
keyVars == <<keyIn, keyOut>>
httpVars == <<w, req>>
vars == <<db, last, history, pc, args, txs, writer, rets, keyIn, keyOut, w, req>>

----------------------------------------------------------------------------
(* Bounds and input sets *)

MaxTextLen == 2

SeqsUpTo(S, n) == UNION {[1..k -> S] : k \in 0..n}

TextChars == {"x", " ", "\n"}
Texts == SeqsUpTo(TextChars, MaxTextLen)

Users == {<<"u">>, <<"U">>}
Names == {<<"n">>, <<"M">>}

\* the values of the calls whose transaction may fail
FaultTexts == {<<"x">>, <<" ">>}

----------------------------------------------------------------------------
(* part two: string sanitisation functions *)

\* unicode.IsSpace, on the characters of the model
IsSpace(c) == c \in {" ", "\t", "\n"}

\* unicode.ToLower, on the characters of the model
ToLowerRune(c) ==
    CASE c = "U" -> "u"
      [] c = "N" -> "n"
      [] c = "M" -> "m"
      [] c = "A" -> "a"
      [] OTHER -> c

ToLower(s) == [i \in 1..Len(s) |-> ToLowerRune(s[i])]

RECURSIVE TrimLeft(_)
TrimLeft(s) == IF s # <<>> /\ IsSpace(Head(s)) THEN TrimLeft(Tail(s)) ELSE s

RECURSIVE TrimRight(_)
TrimRight(s) ==
    IF s # <<>> /\ IsSpace(s[Len(s)]) THEN TrimRight(SubSeq(s, 1, Len(s) - 1)) ELSE s

\* mutant: strings.TrimLeft in place of strings.TrimSpace
TrimSpaceLeftOnly(s) == TrimLeft(s)

TrimSpace(s) == TrimRight(TrimLeft(s))

PairKey(user, name) == ToLower(user) \o <<":">> \o ToLower(name)

\* mutant: the newline appended to the untrimmed text
PairValueUntrimmed(text) == text \o <<"\n">>

PairValue(text) == TrimSpace(text) \o <<"\n">>

----------------------------------------------------------------------------
(* bbolt: transactions over the bucket "main" *)

NilErr == "nil"
Faults == {"none", "begin", "create", "put", "delete", "commit"}
ErrOf(fault) == "error: " \o fault

NoPairs == [k \in {} |-> <<>>]
NoBucket == [bucket |-> FALSE, pairs |-> NoPairs]

\* tx.Bucket([]byte("main")) != nil
Bucket(tx) == tx.bucket

\* mutant: the bucket made anew, empty, whether or not it exists
CreateBucketAnew(tx, fault) ==
    IF fault = "create" THEN [tx |-> tx, err |-> ErrOf(fault)]
    ELSE [tx |-> [bucket |-> TRUE, pairs |-> NoPairs], err |-> NilErr]

\* tx.CreateBucketIfNotExists([]byte("main"))
CreateBucketIfNotExists(tx, fault) ==
    IF fault = "create" THEN [tx |-> tx, err |-> ErrOf(fault)]
    ELSE [tx |-> [tx EXCEPT !.bucket = TRUE], err |-> NilErr]

\* buck.Put(key, value)
Put(tx, key, value, fault) ==
    IF fault = "put" THEN [tx |-> tx, err |-> ErrOf(fault)]
    ELSE [tx |-> [tx EXCEPT !.pairs =
                    [k \in DOMAIN tx.pairs \cup {key} |->
                        IF k = key THEN value ELSE tx.pairs[k]]],
          err |-> NilErr]

\* buck.Delete(key): deleting a key that is not there is no error
Delete(tx, key, fault) ==
    IF fault = "delete" THEN [tx |-> tx, err |-> ErrOf(fault)]
    ELSE [tx |-> [tx EXCEPT !.pairs = [k \in DOMAIN tx.pairs \ {key} |-> tx.pairs[k]]],
          err |-> NilErr]

\* buck.Get(key): nil when the key is not there
Get(tx, key) ==
    IF key \in DOMAIN tx.pairs THEN [isNil |-> FALSE, data |-> tx.pairs[key]]
    ELSE [isNil |-> TRUE, data |-> <<>>]

\* db.Update(fn): r is what the closure made of the transaction and returned.
\* Commits atomically when the closure returns nil, rolls back otherwise.
Update(d, r, fault) ==
    IF fault = "begin" THEN [db |-> d, err |-> ErrOf(fault)]
    ELSE IF r.err # NilErr THEN [db |-> d, err |-> r.err]
    ELSE IF fault = "commit" THEN [db |-> d, err |-> ErrOf(fault)]
    ELSE [db |-> r.tx, err |-> NilErr]

\* db.View(fn): the closure of GetPair always returns nil; the transaction is
\* rolled back at the end. ran: whether the closure was called.
View(fault) ==
    IF fault = "begin" THEN [ran |-> FALSE, err |-> ErrOf(fault)]
    ELSE IF fault = "commit" THEN [ran |-> TRUE, err |-> ErrOf(fault)]
    ELSE [ran |-> TRUE, err |-> NilErr]

----------------------------------------------------------------------------
(* part three: database handling functions *)

\* mutant: the key deleted is not lower-cased
DeletePairTxRawKey(tx, user, name, fault) ==
    IF Bucket(tx) THEN Delete(tx, user \o <<":">> \o name, fault)
    ELSE [tx |-> tx, err |-> NilErr]

\* mutant: the bucket is created when it is missing, as SetPair does
DeletePairTxCreate(tx, user, name, fault) ==
    LET c == CreateBucketIfNotExists(tx, fault)
    IN  IF c.err # NilErr THEN [tx |-> c.tx, err |-> c.err]
        ELSE Delete(c.tx, PairKey(user, name), fault)

\* the closure of DeletePair
DeletePairTx(tx, user, name, fault) ==
    IF Bucket(tx) THEN Delete(tx, PairKey(user, name), fault)
    ELSE [tx |-> tx, err |-> NilErr]

\* mutant: the error of CreateBucketIfNotExists and Put is dropped
SetPairTxSwallow(tx, user, name, pval, fault) ==
    LET c == CreateBucketIfNotExists(tx, fault)
    IN  IF c.err # NilErr THEN [tx |-> c.tx, err |-> NilErr]
        ELSE [tx |-> Put(c.tx, PairKey(user, name), PairValue(pval), fault).tx,
              err |-> NilErr]

\* the closure of SetPair
SetPairTx(tx, user, name, pval, fault) ==
    LET c == CreateBucketIfNotExists(tx, fault)
    IN  IF c.err # NilErr THEN [tx |-> c.tx, err |-> c.err]
        ELSE Put(c.tx, PairKey(user, name), PairValue(pval), fault)

\* mutant: var okay = true
GetPairZeroTrue == [pval |-> <<>>, okay |-> TRUE]

\* var pval string; var okay = false
GetPairZero == [pval |-> <<>>, okay |-> FALSE]

\* the closure of GetPair: what it assigns to the captured pval and okay
GetPairTx(tx, user, name) ==
    IF Bucket(tx)
    THEN LET bytes == Get(tx, PairKey(user, name))
         IN  [pval |-> bytes.data, okay |-> ~bytes.isNil]
    ELSE GetPairZero

\* "return pval, okay, db.View(...)": Go does not specify whether the operands
\* pval and okay are read before or after the call of db.View that assigns them.
EvalOrders == {"operands_after_call", "operands_before_call"}

GetPairResult(d, user, name, fault, order) ==
    LET v == View(fault)
        assigned == IF v.ran THEN GetPairTx(d, user, name) ELSE GetPairZero
        read == IF order = "operands_after_call" THEN assigned ELSE GetPairZero
    IN  [pval |-> read.pval, okay |-> read.okay, err |-> v.err]

NoRet == [pval |-> <<>>, okay |-> FALSE, err |-> NilErr]

Called(op, user, name, pval, ret, fault, key) ==
    [op |-> op, user |-> user, name |-> name, pval |-> pval, ret |-> ret,
     fault |-> fault, hadMain |-> db.bucket, old |-> Get(db, key)]

\* per key, the most recent SetPair or DeletePair call on it, when it returned nil:
\* the bytes it was to store (SetPair) and whether the key was stored before it
Remember(key, op, value, err) ==
    IF err # NilErr THEN [k \in DOMAIN history \ {key} |-> history[k]]
    ELSE [k \in DOMAIN history \cup {key} |->
            IF k = key
            THEN [op |-> op, value |-> value, existed |-> ~Get(db, key).isNil]
            ELSE history[k]]

SetPair(user, name, pval, fault) ==
    LET key == PairKey(user, name)
        r == Update(db, SetPairTx(db, user, name, pval, fault), fault)
    IN  /\ db' = r.db
        /\ last' = Called("SetPair", user, name, pval, [NoRet EXCEPT !.err = r.err],
                          fault, key)
        /\ history' = Remember(key, "SetPair", PairValue(pval), r.err)
        /\ UNCHANGED <<concVars, keyVars, httpVars>>

DeletePair(user, name, fault) ==
    LET key == PairKey(user, name)
        r == Update(db, DeletePairTx(db, user, name, fault), fault)
    IN  /\ db' = r.db
        /\ last' = Called("DeletePair", user, name, <<>>, [NoRet EXCEPT !.err = r.err],
                          fault, key)
        /\ history' = Remember(key, "DeletePair", <<>>, r.err)
        /\ UNCHANGED <<concVars, keyVars, httpVars>>

GetPair(user, name, fault, order) ==
    /\ db' = db
    /\ last' = Called("GetPair", user, name, <<>>,
                      GetPairResult(db, user, name, fault, order), fault,
                      PairKey(user, name))
    /\ UNCHANGED <<history, concVars, keyVars, httpVars>>


----------------------------------------------------------------------------
(* Concurrent SetPair calls: db.Update holds bbolt's writer lock from the  *)
(* beginning of the transaction to its commit                              *)

Procs == {1, 2}

ConcTexts == {<<"x">>, <<" ", "x", "x", "\n">>}

InitialStores ==
    {NoBucket,
     [bucket |-> TRUE, pairs |-> NoPairs],
     [bucket |-> TRUE, pairs |-> (PairKey(<<"u">>, <<"n">>) :> <<"x", "\n">>)]}

\* db.Update: db.Begin(true) takes the writer lock and opens the transaction
BeginUpdate(p) ==
    /\ pc[p] = "call"
    /\ writer = 0
    /\ writer' = p
    /\ txs' = [txs EXCEPT ![p] = db]
    /\ pc' = [pc EXCEPT ![p] = "fn"]
    /\ UNCHANGED <<db, last, history, args, rets, keyVars, httpVars>>

\* db.Update: the closure of SetPair runs on the transaction
RunSetPair(p) ==
    /\ pc[p] = "fn"
    /\ LET r == SetPairTx(txs[p], args[p].user, args[p].name, args[p].pval, "none")
       IN  /\ txs' = [txs EXCEPT ![p] = r.tx]
           /\ rets' = [rets EXCEPT ![p] = r.err]
    /\ pc' = [pc EXCEPT ![p] = "commit"]
    /\ UNCHANGED <<db, last, history, args, writer, keyVars, httpVars>>

\* db.Update: commit (or roll back), release the writer lock, return
CommitUpdate(p) ==
    /\ pc[p] = "commit"
    /\ LET r == Update(db, [tx |-> txs[p], err |-> rets[p]], "none")
       IN  /\ db' = r.db
           /\ rets' = [rets EXCEPT ![p] = r.err]
    /\ writer' = 0
    /\ pc' = [pc EXCEPT ![p] = "done"]
    /\ UNCHANGED <<last, history, args, txs, keyVars, httpVars>>

----------------------------------------------------------------------------
(* PairKey applied to two identities *)

MaxIdLen == 1

IdChars == {"a", "A", ":"}
Ids == SeqsUpTo(IdChars, MaxIdLen)

NoKeys == <<>>

DeriveKeys ==
    /\ keyOut = NoKeys
    /\ keyOut' = <<PairKey(keyIn.user1, keyIn.name1), PairKey(keyIn.user2, keyIn.name2)>>
    /\ UNCHANGED <<storeVars, concVars, keyIn, httpVars>>

----------------------------------------------------------------------------
(* part four: http response functions *)

MaxFormLen == 2
MaxElems == 1

Codes == {200, 400, 500}
FormChars == {"m", "%", "s"}
Forms == SeqsUpTo(FormChars, MaxFormLen)
ElemLists == SeqsUpTo({"e"}, MaxElems)

Digits == <<"0", "1", "2", "3", "4", "5", "6", "7", "8", "9">>

\* the verb %d of a non-negative int
RECURSIVE Itoa(_)
Itoa(n) == IF n < 10 THEN <<Digits[n + 1]>> ELSE Itoa(n \div 10) \o <<Digits[(n % 10) + 1]>>

\* fmt: "%!(EXTRA type=value, ...)" for the arguments no verb used
RECURSIVE Extra(_, _)
Extra(elems, argNum) ==
    IF argNum > Len(elems) THEN <<>>
    ELSE <<"string=", elems[argNum]>>
            \o (IF argNum < Len(elems) THEN <<", ">> ELSE <<>>)
            \o Extra(elems, argNum + 1)

\* fmt's doPrintf over string arguments: literal text is copied, %% is a percent
\* sign, %s prints the next argument, a verb with no argument left prints
\* %!verb(MISSING), another verb %!verb(string=arg), a % ending the format
\* %!(NOVERB), and unused arguments are reported at the end.
RECURSIVE doPrintf(_, _, _, _)
doPrintf(form, i, elems, argNum) ==
    IF i > Len(form)
    THEN IF argNum <= Len(elems) THEN <<"%!(EXTRA ">> \o Extra(elems, argNum) \o <<")">>
         ELSE <<>>
    ELSE IF form[i] # "%" THEN <<form[i]>> \o doPrintf(form, i + 1, elems, argNum)
    ELSE IF i = Len(form) THEN <<"%!(NOVERB)">> \o doPrintf(form, i + 1, elems, argNum)
    ELSE LET verb == form[i + 1]
         IN  IF verb = "%" THEN <<"%">> \o doPrintf(form, i + 2, elems, argNum)
             ELSE IF argNum > Len(elems)
             THEN <<"%!", verb, "(MISSING)">> \o doPrintf(form, i + 2, elems, argNum)
             ELSE IF verb = "s"
             THEN <<elems[argNum]>> \o doPrintf(form, i + 2, elems, argNum + 1)
             ELSE <<"%!", verb, "(string=", elems[argNum], ")">>
                    \o doPrintf(form, i + 2, elems, argNum + 1)

Sprintf(form, elems) == doPrintf(form, 1, elems, 1)

\* httptest.NewRecorder()
NewRecorder == [header |-> [k \in {} |-> ""], calls |-> <<>>]

HeaderSet(rw, key, value) ==
    [header |-> [k \in DOMAIN rw.header \cup {key} |->
                    IF k = key THEN value ELSE rw.header[k]],
     calls |-> Append(rw.calls, [call |-> "Header().Set", key |-> key, value |-> value,
                                 code |-> 0, body |-> <<>>])]

WriteHeader(rw, code) ==
    [rw EXCEPT !.calls = Append(@, [call |-> "WriteHeader", key |-> "", value |-> "",
                                    code |-> code, body |-> <<>>])]

Write(rw, body) ==
    [rw EXCEPT !.calls = Append(@, [call |-> "Write", key |-> "", value |-> "",
                                    code |-> 0, body |-> body])]

\* fmt.Fprintf formats into a buffer and calls w.Write once
Fprintf(rw, form, elems) == Write(rw, Sprintf(form, elems))

WriteHTTP(rw, code, form, elems) ==
    Fprintf(WriteHeader(HeaderSet(rw, "Content-Type", "text/plain; charset=utf-8"), code),
            form \o <<"\n">>, elems)

\* fmt.Sprintf("server error %d: %s", code, form)
WriteError(rw, code, form, elems) ==
    WriteHTTP(rw, code, <<"server error ">> \o Itoa(code) \o <<": ">> \o form, elems)

\* fmt.Sprintf("client error %d: %s", code, form)
WriteFailure(rw, code, form, elems) ==
    WriteHTTP(rw, code, <<"client error ">> \o Itoa(code) \o <<": ">> \o form, elems)

NoReq == [fn |-> "none", code |-> 0, form |-> <<>>, elems |-> <<>>]

Request(fn, code, form, elems) == [fn |-> fn, code |-> code, form |-> form, elems |-> elems]

\* a handler calls one response function on the writer of its request
CallWriteHTTP(code, form, elems) ==
    /\ req = NoReq
    /\ w' = WriteHTTP(w, code, form, elems)
    /\ req' = Request("WriteHTTP", code, form, elems)
    /\ UNCHANGED <<storeVars, concVars, keyVars>>

CallWriteError(code, form, elems) ==
    /\ req = NoReq
    /\ w' = WriteError(w, code, form, elems)
    /\ req' = Request("WriteError", code, form, elems)
    /\ UNCHANGED <<storeVars, concVars, keyVars>>

CallWriteFailure(code, form, elems) ==
    /\ req = NoReq
    /\ w' = WriteFailure(w, code, form, elems)
    /\ req' = Request("WriteFailure", code, form, elems)
    /\ UNCHANGED <<storeVars, concVars, keyVars>>

\* the next request comes with a writer of its own
NextRequest ==
    /\ req # NoReq
    /\ w' = NewRecorder
    /\ req' = NoReq
    /\ UNCHANGED <<storeVars, concVars, keyVars>>

----------------------------------------------------------------------------
(* Specifications *)

NoCall == [op |-> "none", user |-> <<>>, name |-> <<>>, pval |-> <<>>, ret |-> NoRet,
           fault |-> "none", hadMain |-> FALSE, old |-> [isNil |-> TRUE, data |-> <<>>]]

StoreIdle == db = NoBucket /\ last = NoCall /\ history = NoPairs
ConcIdle == pc = <<>> /\ args = <<>> /\ txs = <<>> /\ writer = 0 /\ rets = <<>>
KeyIdle == keyIn = <<>> /\ keyOut = NoKeys
HttpIdle == w = NewRecorder /\ req = NoReq

\* The store as main opens it (no bucket yet), called by one caller at a time;
\* the store's transactions do not fail.
Init == StoreIdle /\ ConcIdle /\ KeyIdle /\ HttpIdle

Next ==
    \/ \E user \in Users, name \in Names, pval \in Texts : SetPair(user, name, pval, "none")
    \/ \E user \in Users, name \in Names : DeletePair(user, name, "none")
    \/ \E user \in Users, name \in Names, order \in EvalOrders :
            GetPair(user, name, "none", order)

Spec == Init /\ [][Next]_vars

\* The same, with transactions the store may fail: at their beginning, in
\* CreateBucketIfNotExists, Put or Delete, or at their commit.
NextFault ==
    \/ \E user \in Users, name \in Names, pval \in FaultTexts, fault \in Faults :
            SetPair(user, name, pval, fault)
    \/ \E user \in Users, name \in Names, fault \in Faults : DeletePair(user, name, fault)
    \/ \E user \in Users, name \in Names, order \in EvalOrders, fault \in Faults :
            GetPair(user, name, fault, order)

SpecFault == Init /\ [][NextFault]_vars

\* Two SetPair calls running concurrently on a store.
InitConc ==
    /\ db \in InitialStores
    /\ last = NoCall
    /\ history = NoPairs
    /\ pc = [p \in Procs |-> "call"]
    /\ args \in [Procs -> [user : Users, name : Names, pval : ConcTexts]]
    /\ txs = [p \in Procs |-> NoBucket]
    /\ writer = 0
    /\ rets = [p \in Procs |-> NilErr]
    /\ KeyIdle /\ HttpIdle

NextConc == \E p \in Procs : BeginUpdate(p) \/ RunSetPair(p) \/ CommitUpdate(p)

SpecConc == InitConc /\ [][NextConc]_vars

\* PairKey on two identities.
InitKey ==
    /\ StoreIdle /\ ConcIdle /\ HttpIdle
    /\ keyIn \in [user1 : Ids, name1 : Ids, user2 : Ids, name2 : Ids]
    /\ keyOut = NoKeys

NextKey == DeriveKeys

SpecKey == InitKey /\ [][NextKey]_vars

\* The response functions, each call on a fresh writer.
NextHTTP ==
    \/ \E code \in Codes, form \in Forms, elems \in ElemLists :
            CallWriteHTTP(code, form, elems)
    \/ \E code \in Codes, form \in Forms, elems \in ElemLists :
            CallWriteError(code, form, elems)
    \/ \E code \in Codes, form \in Forms, elems \in ElemLists :
            CallWriteFailure(code, form, elems)
    \/ NextRequest

SpecHTTP == Init /\ [][NextHTTP]_vars

----------------------------------------------------------------------------
(* Properties *)

LastKey == PairKey(last.user, last.name)

AllSpace(text) == \A i \in 1..Len(text) : IsSpace(text[i])

C2_DeleteThenGet ==
    (/\ last.op = "GetPair"
     /\ LastKey \in DOMAIN history
     /\ history[LastKey].op = "DeletePair")
    => last.ret = [pval |-> <<>>, okay |-> FALSE, err |-> NilErr]

C2_Witness ==
    /\ last.op = "GetPair"
    /\ LastKey \in DOMAIN history
    /\ history[LastKey].op = "DeletePair"
    /\ history[LastKey].existed
    /\ last.ret.okay = FALSE

\* C3: PairKey is injective over case-folded identities: two identities that differ
\* after lower-casing never get the same key.
C3_PairKeyInjective ==
    keyOut # NoKeys =>
        (<<ToLower(keyIn.user1), ToLower(keyIn.name1)>>
            # <<ToLower(keyIn.user2), ToLower(keyIn.name2)>>
         => keyOut[1] # keyOut[2])

\* a value that ends in one newline and has no other leading or trailing whitespace
Normalised(value) ==
    /\ Len(value) >= 1
    /\ value[Len(value)] = "\n"
    /\ Len(value) >= 2 => ~IsSpace(value[1]) /\ ~IsSpace(value[Len(value) - 1])

\* C4: from a store with no bucket, after any calls of SetPair, GetPair and
\* DeletePair, every value in the bucket ends in exactly one newline and has no
\* other leading or trailing whitespace; an empty or all-whitespace input is stored
\* as the single byte "\n".
C4_StoredValuesNormalised ==
    /\ \A k \in DOMAIN db.pairs : Normalised(db.pairs[k])
    /\ (last.op = "SetPair" /\ AllSpace(last.pval)) => Get(db, LastKey).data = <<"\n">>

C4_Witness ==
    /\ last.op = "SetPair"
    /\ Len(last.pval) > 0
    /\ AllSpace(last.pval)
    /\ Get(db, LastKey).data = <<"\n">>
    /\ \E k \in DOMAIN db.pairs : db.pairs[k] = <<"x", "\n">>

KeyOf(p) == PairKey(args[p].user, args[p].name)

\* C5: two concurrent SetPair calls with distinct derived keys both return nil and
\* afterwards both pairs are stored with their own normalised values, in either
\* order of their transactions, also when the bucket did not exist before.
C5_NoLostUpdate ==
    ((\A p \in Procs : pc[p] = "done") /\ KeyOf(1) # KeyOf(2))
    => /\ \A p \in Procs : rets[p] = NilErr
       /\ db.bucket
       /\ \A p \in Procs :
            Get(db, KeyOf(p)) = [isNil |-> FALSE, data |-> PairValue(args[p].pval)]

C5_Witness ==
    /\ \A p \in Procs : pc[p] = "done"
    /\ KeyOf(1) # KeyOf(2)
    /\ DOMAIN db.pairs = {KeyOf(1), KeyOf(2)}
    /\ args[1].pval # args[2].pval

\* C6: GetPair on a store without the bucket returns ("", false, nil) and leaves
\* the store as it was: the bucket is still absent.
C6_GetWithoutBucket ==
    (last.op = "GetPair" /\ ~last.hadMain)
    => /\ last.ret = [pval |-> <<>>, okay |-> FALSE, err |-> NilErr]
       /\ db = NoBucket

C6_Witness ==
    /\ last.op = "GetPair"
    /\ ~last.hadMain
    /\ db = NoBucket

\* C7: DeletePair returns nil, never creates the bucket, removes the derived key
\* when it is stored and leaves every other pair unchanged; so it changes nothing
\* when the bucket or the key is absent.
C7_DeleteFrame ==
    [][last'.op = "DeletePair"
        => /\ last'.ret.err = NilErr
           /\ db'.bucket = db.bucket
           /\ db'.pairs = [k \in DOMAIN db.pairs \ {PairKey(last'.user, last'.name)} |->
                              db.pairs[k]]]_vars

C7_Witness ==
    /\ last.op = "DeletePair"
    /\ ~last.old.isNil
    /\ Get(db, LastKey).isNil
    /\ DOMAIN db.pairs # {}

\* C8: PairValue is idempotent, so that a SetPair that writes back the value
\* stored under its key (what GetPair read) leaves the stored bytes unchanged.
C8_PairValueIdempotent ==
    last.op = "SetPair"
    => /\ PairValue(PairValue(last.pval)) = PairValue(last.pval)
       /\ (~last.old.isNil /\ last.pval = last.old.data)
            => Get(db, LastKey) = last.old

C8_Witness ==
    /\ last.op = "SetPair"
    /\ ~last.old.isNil
    /\ last.pval = last.old.data
    /\ Len(last.pval) > 1
    /\ Get(db, LastKey) = last.old

\* the store reports an error to this call: at the beginning or the commit of the
\* transaction, or in an operation the call's closure reaches
Fails(op, d, fault) ==
    \/ fault \in {"begin", "commit"}
    \/ op = "SetPair" /\ fault \in {"create", "put"}
    \/ op = "DeletePair" /\ fault = "delete" /\ d.bucket

\* C9: when the store's transaction fails during SetPair or DeletePair, the call
\* returns that error and the store is exactly as before the call; GetPair returns
\* the error of its view transaction.
C9_ErrorsPropagate ==
    [][Fails(last'.op, db, last'.fault)
        => /\ last'.ret.err = ErrOf(last'.fault)
           /\ db' = db]_vars

C9_Witness ==
    /\ last.op = "SetPair"
    /\ last.fault = "put"
    /\ last.ret.err = ErrOf("put")
    /\ ~last.hadMain
    /\ db = NoBucket

Envelope(fn, code) ==
    CASE fn = "WriteError" -> <<"server error ">> \o Itoa(code) \o <<": ">>
      [] fn = "WriteFailure" -> <<"client error ">> \o Itoa(code) \o <<": ">>
      [] OTHER -> <<>>

\* C10: every call of WriteHTTP, WriteError or WriteFailure sets the Content-Type
\* header, then writes the status once with the caller's code, then writes the body
\* once; the body is the formatted message followed by one "\n", after
\* "server error <code>: " for WriteError and "client error <code>: " for
\* WriteFailure.
C10_ResponseContract ==
    req # NoReq =>
        /\ Len(w.calls) = 3
        /\ w.calls[1] = [call |-> "Header().Set", key |-> "Content-Type",
                         value |-> "text/plain; charset=utf-8", code |-> 0, body |-> <<>>]
        /\ w.calls[2] = [call |-> "WriteHeader", key |-> "", value |-> "",
                         code |-> req.code, body |-> <<>>]
        /\ w.calls[3] = [call |-> "Write", key |-> "", value |-> "", code |-> 0,
                         body |-> Envelope(req.fn, req.code)
                                    \o Sprintf(req.form, req.elems) \o <<"\n">>]

====
